---------------------------- MODULE Spec2Model ----------------------------
(***************************************************************************)
(* MMM-IsraelNews: the backend aggregation pipeline (node_helper.js,       *)
(* getNews) and the favicon cache (IconUtils).                             *)
(*                                                                         *)
(* Times are whole hours.  A publish date is a record [k, t]: k = "date"   *)
(* for a string that new Date() parses (t is its time), k = "empty" for    *)
(* the empty string and k = "text" for a string new Date() cannot parse.   *)
(* Downloaded bytes are named by what their first bytes are: "png", "ico", *)
(* "junk" (not empty, no image signature), "empty" (zero length).          *)
(***************************************************************************)
EXTENDS Integers, Sequences, FiniteSets, TLC

VARIABLES clock, cycles, sent, cache, files, indexFile, old,
          hist,    \* what has happened to the IconUtils object (history)
          dl,      \* one call of downloadFileToBuffer and what becomes of it
          call,    \* one call of a function: its name, arguments and result
          front    \* the module in the browser, its timers and its socket

vars == <<clock, cycles, sent, cache, files, indexFile, old, hist, dl, call, front>>

---------------------------------------------------------------------------
(* Bounds of the model *)

MaxCycles == 2
MaxClock == 2
MaxItems == 2

(* Program constants *)

DefaultHoursBack == 24

---------------------------------------------------------------------------
(* Publish dates and news items *)

EmptyDate == [k |-> "empty", t |-> 0]
TextDate == [k |-> "text", t |-> 0]
DateAt(t) == [k |-> "date", t |-> t]

\* new Date() after setHours(NaN): an Invalid Date
InvalidDate == [k |-> "invalid", t |-> 0]

\* isNaN(new Date(pubDate).getTime())
IsNaNDate(p) == p.k # "date"

PubDates == {EmptyDate, TextDate} \cup {DateAt(t) : t \in 0..(MaxClock + 1)}

---------------------------------------------------------------------------
(* getNews: the recency filter (node_helper.js 329-348) *)

\* A bug the filter could have: an exclusive lower boundary.
keepItem_exclusive(item, cutoffTime, now) ==
    IF item.pubDate.k = "empty" THEN TRUE
    ELSE IF IsNaNDate(item.pubDate) THEN TRUE
    ELSE IF item.pubDate.t > now THEN FALSE
    ELSE ~IsNaNDate(cutoffTime) /\ item.pubDate.t > cutoffTime.t

\* A bug the filter could have: items without a usable date are dropped.
keepItem_dropUndated(item, cutoffTime, now) ==
    IF IsNaNDate(item.pubDate) THEN FALSE
    ELSE IF item.pubDate.t > now THEN FALSE
    ELSE ~IsNaNDate(cutoffTime) /\ item.pubDate.t >= cutoffTime.t

\* The callback of allNewsItems.filter.
keepItem(item, cutoffTime, now) ==
    IF item.pubDate.k = "empty" THEN TRUE            \* !item.pubDate
    ELSE IF IsNaNDate(item.pubDate) THEN TRUE        \* invalid date
    ELSE IF item.pubDate.t > now THEN FALSE          \* future item
    ELSE ~IsNaNDate(cutoffTime) /\ item.pubDate.t >= cutoffTime.t

RECURSIVE filterItems(_, _, _)
filterItems(items, cutoffTime, now) ==
    IF items = <<>> THEN <<>>
    ELSE (IF keepItem(Head(items), cutoffTime, now) THEN <<Head(items)>> ELSE <<>>)
         \o filterItems(Tail(items), cutoffTime, now)

---------------------------------------------------------------------------
(* getNews: the sort (node_helper.js 354-361).  The comparator answers 1   *)
(* for two undated items in both orders, so it is not a consistent         *)
(* comparator and the order Array.prototype.sort produces is the engine's: *)
(* the sort below is V8's (Node 11 and later), which for fewer than 64     *)
(* elements finds the initial run and binary-inserts the rest; it reads    *)
(* only whether the comparator's answer is negative.                       *)

\* A bug the comparator could have: oldest first.
compare_ascending(a, b) ==
    IF IsNaNDate(a.pubDate) THEN 1
    ELSE IF IsNaNDate(b.pubDate) THEN -1
    ELSE a.pubDate.t - b.pubDate.t

\* A bug the comparator could have: no handling of invalid dates
\* (dateB - dateA is then NaN, which the engine reads as 0).
compare_noNaN(a, b) ==
    IF IsNaNDate(a.pubDate) \/ IsNaNDate(b.pubDate) THEN 0
    ELSE b.pubDate.t - a.pubDate.t

\* A bug the comparator could have: the two invalid-date tests swapped.
compare_swapped(a, b) ==
    IF IsNaNDate(b.pubDate) THEN -1
    ELSE IF IsNaNDate(a.pubDate) THEN 1
    ELSE b.pubDate.t - a.pubDate.t

\* The comparator given to filteredNewsItems.sort.
compare(a, b) ==
    IF IsNaNDate(a.pubDate) THEN 1
    ELSE IF IsNaNDate(b.pubDate) THEN -1
    ELSE b.pubDate.t - a.pubDate.t                   \* newest first

Reverse(s) == [i \in 1..Len(s) |-> s[Len(s) + 1 - i]]

\* The last index of the run that starts at 1 and holds 1..i already.
RECURSIVE RunEnd(_, _, _)
RunEnd(s, i, descending) ==
    IF i = Len(s) THEN i
    ELSE LET order == compare(s[i + 1], s[i])
         IN  IF (descending /\ order >= 0) \/ (~descending /\ order < 0)
             THEN i
             ELSE RunEnd(s, i + 1, descending)

\* The initial run, reversed in place when strictly descending.
CountAndMakeRun(s) ==
    LET descending == compare(s[2], s[1]) < 0
        n == RunEnd(s, 2, descending)
    IN  [arr |-> IF descending
                 THEN Reverse(SubSeq(s, 1, n)) \o SubSeq(s, n + 1, Len(s))
                 ELSE s,
         run |-> n]

\* The insertion point of pivot in the sorted s[left..right-1].
RECURSIVE BinarySearch(_, _, _, _)
BinarySearch(s, pivot, left, right) ==
    IF left >= right THEN left
    ELSE LET mid == left + ((right - left) \div 2)
         IN  IF compare(pivot, s[mid]) < 0
             THEN BinarySearch(s, pivot, left, mid)
             ELSE BinarySearch(s, pivot, mid + 1, right)

RECURSIVE BinaryInsertionSort(_, _)
BinaryInsertionSort(s, start) ==
    IF start > Len(s) THEN s
    ELSE LET left == BinarySearch(s, s[start], 1, start)
         IN  BinaryInsertionSort(
                 SubSeq(s, 1, left - 1) \o <<s[start]>>
                     \o SubSeq(s, left, start - 1) \o SubSeq(s, start + 1, Len(s)),
                 start + 1)

sortItems(items) ==
    IF Len(items) < 2 THEN items
    ELSE LET r == CountAndMakeRun(items)
         IN  BinaryInsertionSort(r.arr, r.run + 1)

RECURSIVE flat(_)
flat(feedsResults) ==
    IF feedsResults = <<>> THEN <<>>
    ELSE Head(feedsResults) \o flat(Tail(feedsResults))

---------------------------------------------------------------------------
(* IconUtils (src/unnamed/part_000).  A name, that is a URL or a file      *)
(* path, is a tuple of strings: <<"http", domain, path>> is an icon URL,   *)
(* <<"file", "temp_icons", u>> the cache file of source URL u.  A favicon  *)
(* reference is Null, an icon URL, a cache file path, or a data URL        *)
(* <<"data", mime, bytes>>.  The state of an IconUtils object and of its   *)
(* cache directory is the record iu = [cache, files, indexFile, old].      *)

\* Source URLs that new URL() parses, and one it does not.
Urls == {"u1", "u2"}
BadUrl == "bad"
ValidUrl(u) == u \in Urls

Null == <<"null">>
Undefined == <<"undefined">>
NoPath == <<"nopath">>
NoFile == "absent"
NoData == "nodata"
Contents == {"png", "ico", "junk", "empty"}
\* a file that readFileSync throws on
Unreadable == "unreadable"

\* url.protocol + '//' + url.hostname
extractMainDomain(u) == IF u = "u1" THEN "d1" ELSE "d2"

\* path.join(tempDir, generateCacheFilename(url)): one file per source URL.
CachePath(u) == <<"file", "temp_icons", u>>
Paths == {CachePath(u) : u \in Urls}

\* The file names of icons, and the words among those the code looks for
\* (with includes) that each of them holds.
IconPaths ==
    {"favicon.ico", "site.ico", "icon32.png", "icon.png", "logo.png", "logo.svg", "logo"}
Words(name) ==
    CASE name = "favicon.ico" -> {"favicon", ".ico"}
      [] name = "site.ico"    -> {".ico"}
      [] name = "icon32.png"  -> {".png", "32"}
      [] name = "icon.png"    -> {".png"}
      [] name = "logo.png"    -> {".png", "logo", "og"}
      [] name = "logo.svg"    -> {".svg", "logo", "og"}
      [] name = "logo"        -> {"logo", "og"}
      [] OTHER                -> {}

IconUrl(domain, path) == <<"http", domain, path>>

\* url.includes(word): the hosts and directories of the model hold none of
\* the words, the file name is the last part of a name
Includes(url, word) == word \in Words(url[Len(url)])

\* urlLower.includes('.ico') || urlLower.includes('favicon')
HintsIcon(name) == Includes(name, ".ico") \/ Includes(name, "favicon")

\* A bug the validation could have: the leniency for icon URLs comes first.
isValidImageData_hintFirst(imageData, originalUrl) ==
    IF HintsIcon(originalUrl) THEN TRUE
    ELSE imageData \in {"png", "ico"}

isValidImageData(imageData, originalUrl) ==
    IF imageData = NoData \/ imageData = "empty" THEN FALSE
    ELSE IF imageData \in {"png", "ico"} THEN TRUE   \* an image signature
    ELSE HintsIcon(originalUrl)                      \* lenient for icon URLs

getMimeType(fileData) ==
    IF fileData = "png" THEN "image/png"
    ELSE IF fileData = "ico" THEN "image/x-icon"
    ELSE "image/png"

\* the index written: the entries of the map whose file is in tempDir
saveCacheIndex(iu) ==
    [iu EXCEPT !.indexFile = [exists |-> TRUE, entries |-> iu.cache]]

\* A bug the loading could have: every entry of the index is set in the map.
loadCacheIndex_noExistsCheck(iu) ==
    IF ~iu.indexFile.exists THEN iu
    ELSE [iu EXCEPT !.cache = [u \in Urls |->
             IF iu.indexFile.entries[u] # NoPath
             THEN iu.indexFile.entries[u] ELSE iu.cache[u]]]

\* entries whose file exists are set in the map; nothing is removed from it
loadCacheIndex(iu) ==
    IF ~iu.indexFile.exists THEN iu
    ELSE [iu EXCEPT !.cache = [u \in Urls |->
             IF /\ iu.indexFile.entries[u] # NoPath
                /\ iu.files[iu.indexFile.entries[u]] # NoFile
             THEN iu.indexFile.entries[u] ELSE iu.cache[u]]]

\* [iu, ret]: the file written, the map and the index updated
saveIconToCache(iu, url, iconData) ==
    LET cachedPath == CachePath(url)
        written == [iu EXCEPT !.files[cachedPath] = iconData,
                              !.old = @ \ {cachedPath},
                              !.cache[url] = cachedPath]
    IN  [iu |-> saveCacheIndex(written), ret |-> cachedPath]

\* [iu, ret]: the data URL of a cache file, or Null; a file that fails
\* validation is removed (an empty one and one that cannot be read are not)
fileToDataUrl(iu, filePath) ==
    LET fileData == iu.files[filePath]
    IN  IF fileData = NoFile THEN [iu |-> iu, ret |-> Null]
        ELSE IF fileData = Unreadable THEN [iu |-> iu, ret |-> Null]   \* catch
        ELSE IF fileData = "empty" THEN [iu |-> iu, ret |-> Null]
        ELSE IF ~isValidImageData(fileData, filePath)
        THEN [iu |-> [iu EXCEPT !.files[filePath] = NoFile,
                                !.old = @ \ {filePath}],
              ret |-> Null]
        ELSE [iu |-> iu, ret |-> <<"data", getMimeType(fileData), fileData>>]

\* processFaviconUrl for the value of the map, a cache file path: the path
\* holds ".png" (every cache file name ends so) and is returned as it is
processFaviconUrl(faviconUrl) == faviconUrl

\* lower number = higher priority
getFaviconPriority(url) ==
    IF Includes(url, "favicon") THEN 1
    ELSE IF Includes(url, "shortcut") THEN 2
    ELSE IF Includes(url, "apple-touch-icon") THEN 3
    ELSE IF Includes(url, ".ico") THEN 4
    ELSE IF Includes(url, ".png")
    THEN (IF Includes(url, "16") \/ Includes(url, "32") \/ Includes(url, "small")
          THEN 5 ELSE 6)
    ELSE IF Includes(url, ".svg") THEN 7
    ELSE IF Includes(url, ".jpg") \/ Includes(url, ".jpeg") THEN 8
    ELSE IF Includes(url, "og") \/ Includes(url, "logo") \/ Includes(url, "brand") THEN 9
    ELSE 10

\* The value of an href or of a logo as it stands in the page:
\* "//host/name", "/name", "http://host/name" or "name".
ProtocolRelative(host, name) == <<"//", host, name>>
RootRelative(name) == <<"/", name>>
Relative(name) == <<"rel", name>>

\* fullUrl of a match of the link patterns (419-429)
normalize(iconUrl, baseUrl) ==
    IF iconUrl[1] = "//" THEN IconUrl(iconUrl[2], iconUrl[3])    \* protocol + iconUrl
    ELSE IF iconUrl[1] = "/" THEN IconUrl(baseUrl, iconUrl[2])   \* baseUrl + iconUrl
    ELSE IF iconUrl[1] = "http" THEN iconUrl
    ELSE IconUrl(baseUrl, iconUrl[2])                            \* baseUrl + '/' + iconUrl

\* Array.prototype.sort(cmp) of V8 for fewer than 64 elements: the initial
\* run is found, reversed when strictly descending, and the rest is
\* inserted by binary search.
RECURSIVE ArrayRunEnd(_, _, _, _)
ArrayRunEnd(cmp(_, _), s, i, descending) ==
    IF i = Len(s) THEN i
    ELSE LET order == cmp(s[i + 1], s[i])
         IN  IF (descending /\ order >= 0) \/ (~descending /\ order < 0)
             THEN i
             ELSE ArrayRunEnd(cmp, s, i + 1, descending)

RECURSIVE ArrayBinarySearch(_, _, _, _, _)
ArrayBinarySearch(cmp(_, _), s, pivot, left, right) ==
    IF left >= right THEN left
    ELSE LET mid == left + ((right - left) \div 2)
         IN  IF cmp(pivot, s[mid]) < 0
             THEN ArrayBinarySearch(cmp, s, pivot, left, mid)
             ELSE ArrayBinarySearch(cmp, s, pivot, mid + 1, right)

RECURSIVE ArrayInsertionSort(_, _, _)
ArrayInsertionSort(cmp(_, _), s, start) ==
    IF start > Len(s) THEN s
    ELSE LET left == ArrayBinarySearch(cmp, s, s[start], 1, start)
         IN  ArrayInsertionSort(cmp,
                 SubSeq(s, 1, left - 1) \o <<s[start]>>
                     \o SubSeq(s, left, start - 1) \o SubSeq(s, start + 1, Len(s)),
                 start + 1)

ArraySort(cmp(_, _), s) ==
    IF Len(s) < 2 THEN s
    ELSE LET descending == cmp(s[2], s[1]) < 0
             n == ArrayRunEnd(cmp, s, 2, descending)
             arr == IF descending
                    THEN Reverse(SubSeq(s, 1, n)) \o SubSeq(s, n + 1, Len(s))
                    ELSE s
         IN  ArrayInsertionSort(cmp, arr, n + 1)

\* A bug the ranking could have: the highest number first.
comparePriority_descending(a, b) == b.priority - a.priority

\* (a, b) => a.priority - b.priority
comparePriority(a, b) == a.priority - b.priority

\* The HTML of a site: the hrefs its link and meta tags name, in the order
\* in which the patterns find them, and the logos of its JSON-LD scripts.
Page(links, logos) == [ok |-> TRUE, links |-> links, logos |-> logos]

\* foundIcons: the matches of the patterns made absolute, then the logos as
\* they stand (408-453)
foundIcons(html, baseUrl) ==
    [i \in 1..Len(html.links) |->
        LET fullUrl == normalize(html.links[i], baseUrl)
        IN  [url |-> fullUrl, priority |-> getFaviconPriority(fullUrl)]]
    \o [i \in 1..Len(html.logos) |->
        [url |-> html.logos[i], priority |-> getFaviconPriority(html.logos[i])]]

\* The first of the candidates sorted by priority, or /favicon.ico.
parseHtmlForFavicon(html, baseUrl) ==
    LET sorted == ArraySort(comparePriority, foundIcons(html, baseUrl))
    IN  IF Len(sorted) > 0 THEN sorted[1].url ELSE IconUrl(baseUrl, "favicon.ico")

\* A call of getFaviconUrl: where it is (st), what fetchHTML answered
\* (html: "ok" or "failed"), the icon URL it downloads, what the download
\* answered (data), what the call returned (res), and where its pending
\* request is addressed (at): the URL asked for, or the one a redirect named.
TaskRejected ==
    [st |-> "rejected", html |-> "none", iconUrl |-> Null, data |-> "none", res |-> Null,
     at |-> "site"]
TaskDone(res) ==
    [st |-> "done", html |-> "none", iconUrl |-> Null, data |-> "none", res |-> res,
     at |-> "site"]
TaskHtml ==
    [st |-> "html", html |-> "none", iconUrl |-> Null, data |-> "none", res |-> Null,
     at |-> "site"]
TaskDownload(html, iconUrl) ==
    [st |-> "download", html |-> html, iconUrl |-> iconUrl, data |-> "none", res |-> Null,
     at |-> "site"]

\* The Location of a redirect: two URLs that name each other.
Location(at) == IF at = "site" THEN "moved" ELSE "site"

\* getFaviconUrl up to its first await (1043-1082): [iu, task]
getFaviconUrl_start(iu, rssUrl) ==
    IF ~ValidUrl(rssUrl)
    THEN [iu |-> iu, task |-> TaskRejected]          \* new URL(url) throws
    ELSE
    LET diskCachedPath == IF iu.files[CachePath(rssUrl)] # NoFile
                          THEN CachePath(rssUrl) ELSE NoPath
        r == IF diskCachedPath # NoPath
             THEN fileToDataUrl(iu, diskCachedPath)
             ELSE [iu |-> iu, ret |-> Null]
        iu2 == IF diskCachedPath # NoPath /\ r.ret = Null
               THEN saveCacheIndex([r.iu EXCEPT !.cache[rssUrl] = NoPath])
               ELSE r.iu
    IN  IF r.ret # Null THEN [iu |-> iu2, task |-> TaskDone(r.ret)]
        ELSE IF iu2.cache[rssUrl] # NoPath
        THEN [iu |-> iu2, task |-> TaskDone(processFaviconUrl(iu2.cache[rssUrl]))]
        ELSE [iu |-> iu2, task |-> TaskHtml]         \* await fetchHTML

\* What fetchHTML answers: a rejection, or the HTML.
HtmlFailed == [ok |-> FALSE, links |-> <<>>, logos |-> <<>>]
HtmlMenu ==
    { Page(<<>>, <<>>),
      Page(<<RootRelative("logo.png")>>, <<>>),
      Page(<<RootRelative("logo.png"), RootRelative("favicon.ico")>>, <<>>) }

\* includes('.png'), '.gif', '.svg', '.jpg' or '.jpeg' (958-962)
UsableExtension(url) ==
    /\ url[1] = "http"
    /\ \E ext \in {".png", ".gif", ".svg", ".jpg", ".jpeg"} : Includes(url, ext)

\* A reading of the miss path: processFaviconUrl's shortcut applied to the
\* icon URL found, which is returned without a download.
getFaviconUrl_html_shortcut(rssUrl, html) ==
    IF html = HtmlFailed
    THEN TaskDownload("failed", IconUrl(extractMainDomain(rssUrl), "favicon.ico"))
    ELSE LET faviconUrl == parseHtmlForFavicon(html, extractMainDomain(rssUrl))
         IN  IF UsableExtension(faviconUrl)
             THEN [TaskDone(faviconUrl) EXCEPT !.html = "ok", !.iconUrl = faviconUrl]
             ELSE TaskDownload("ok", faviconUrl)

\* getFaviconUrl when fetchHTML settles (1082-1090, 1104-1116): the icon
\* URL to download, the site's own or /favicon.ico of the domain
getFaviconUrl_html(rssUrl, html) ==
    IF html = HtmlFailed
    THEN TaskDownload("failed", IconUrl(extractMainDomain(rssUrl), "favicon.ico"))
    ELSE TaskDownload("ok", parseHtmlForFavicon(html, extractMainDomain(rssUrl)))

\* downloadAndCacheIcon when downloadFileToBuffer settles with iconData
\* (NoData: null, every network failure): [iu, ret]
downloadAndCacheIcon(iu, iconUrl, sourceUrl, iconData) ==
    IF iconData = NoData \/ iconData = "empty" THEN [iu |-> iu, ret |-> iconUrl]
    ELSE IF ~isValidImageData(iconData, iconUrl) THEN [iu |-> iu, ret |-> iconUrl]
    ELSE saveIconToCache(iu, sourceUrl, iconData)

\* A reading of the fallback: no usable download, no reference.
getFaviconUrl_download_null(iu, rssUrl, iconUrl, iconData) ==
    LET d == downloadAndCacheIcon(iu, iconUrl, rssUrl, iconData)
        f == IF d.ret[1] = "file"
             THEN fileToDataUrl(d.iu, d.ret)
             ELSE [iu |-> d.iu, ret |-> Null]
    IN  [iu |-> f.iu, ret |-> f.ret]

\* getFaviconUrl when the download settles (1090-1099, 1116-1123): [iu, ret]
getFaviconUrl_download(iu, rssUrl, iconUrl, iconData) ==
    LET d == downloadAndCacheIcon(iu, iconUrl, rssUrl, iconData)
        f == IF d.ret[1] = "file"                    \* startsWith(tempDir)
             THEN fileToDataUrl(d.iu, d.ret)
             ELSE [iu |-> d.iu, ret |-> Null]
    IN  [iu |-> f.iu, ret |-> IF f.ret # Null THEN f.ret ELSE iconUrl]

\* files older than 30 days are removed, then the index is loaded again
cleanupOldCache(iu) ==
    LET swept == [iu EXCEPT !.files = [p \in Paths |->
                                IF p \in iu.old THEN NoFile ELSE iu.files[p]],
                            !.old = {}]
    IN  IF iu.old # {} THEN loadCacheIndex(swept) ELSE iu

clearCache(iu) ==
    [cache |-> [u \in Urls |-> NoPath],
     files |-> [p \in Paths |-> NoFile],
     indexFile |-> [exists |-> FALSE, entries |-> [u \in Urls |-> NoPath]],
     old |-> {}]

\* files that cannot be read or fail validation are removed; the index is
\* loaded if any was
validateAndCleanCache(iu) ==
    LET bad == {p \in Paths : /\ iu.files[p] # NoFile
                              /\ \/ iu.files[p] = Unreadable
                                 \/ ~isValidImageData(iu.files[p], p)}
        cleaned == [iu EXCEPT !.files = [p \in Paths |->
                                  IF p \in bad THEN NoFile ELSE iu.files[p]],
                              !.old = @ \ bad]
    IN  IF bad # {} THEN loadCacheIndex(cleaned) ELSE iu

\* new IconUtils() over a cache directory
constructor(disk) ==
    loadCacheIndex(validateAndCleanCache(
        [cache |-> [u \in Urls |-> NoPath],
         files |-> disk.files, indexFile |-> disk.indexFile, old |-> disk.old]))

---------------------------------------------------------------------------
(* Sources, and what the network answers for them *)

SrcString(u) == [shape |-> "string", url |-> u, type |-> "none", dateSelector |-> FALSE]
SrcObject(u, type, dateSelector) ==
    [shape |-> "object", url |-> u, type |-> type, dateSelector |-> dateSelector]
SrcNull == [shape |-> "null", url |-> "", type |-> "none", dateSelector |-> FALSE]

\* typeof source === 'string' ? source : source.url
urlOf(source) == source.url

\* typeof sourceConfig === 'object' ? sourceConfig.type : 'rss'
sourceTypeOf(source) == IF source.shape = "object" THEN source.type ELSE "rss"

\* The source lists of the GET_NEWS payloads.
SourceLists ==
    { <<SrcString("u1")>>,
      <<SrcString("u1"), SrcObject("u2", "html", FALSE)>>,
      <<SrcString("u1"), SrcString(BadUrl)>>,
      <<SrcNull>> }

HoursMenu == {1}

\* The payloads of GET_NEWS: the object form and the array form.
Payloads == [isArray : {FALSE}, urls : SourceLists, newsHoursBack : HoursMenu]

ArrayPayload(urls) == [isArray |-> TRUE, urls |-> urls, newsHoursBack |-> 0]

\* What a fetch of a source answers: a failure, or the entries of the feed
\* (the elements of the page), each with a title length and a date text.
FetchFailed == [ok |-> FALSE, entries |-> <<>>]
Fetched(entries) == [ok |-> TRUE, entries |-> entries]
Entry(i, len, date) == [title |-> i, len |-> len, date |-> date]

FeedMenu ==
    { <<Entry(1, 8, DateAt(1))>>,
      <<Entry(1, 8, EmptyDate), Entry(2, 8, DateAt(2)), Entry(3, 8, DateAt(0))>> }

AllFeeds ==
    UNION {{[i \in 1..n |-> Entry(i, 8, f[i])] : f \in [1..n -> PubDates]} : n \in 0..MaxItems}

\* feed.items.map(...) of the RSS branch (302-309)
rssItems(entries, url, faviconUrl) ==
    [i \in 1..Len(entries) |->
        [title |-> entries[i].title, pubDate |-> entries[i].date,
         source |-> url, favicon |-> faviconUrl]]

\* scrapeHtmlNews (182-231) and the map of the HTML branch (292-295): the
\* elements with a title longer than 5, dated by the dateSelector text or,
\* without a dateSelector, by the current time
RECURSIVE scrapeHtmlNews(_, _, _, _)
scrapeHtmlNews(entries, sourceConfig, faviconUrl, now) ==
    IF entries = <<>> THEN <<>>
    ELSE LET e == Head(entries)
             pubDate == IF sourceConfig.dateSelector THEN e.date ELSE DateAt(now)
         IN  (IF e.len > 5
              THEN <<[title |-> e.title, pubDate |-> pubDate,
                      source |-> sourceConfig.url, favicon |-> faviconUrl]>>
              ELSE <<>>)
             \o scrapeHtmlNews(Tail(entries), sourceConfig, faviconUrl, now)

\* A bug the fetch stage could have: no catch, a failed source rejects.
fetchSettled_noCatch(sourceConfig, faviconUrl, response, now) ==
    IF ~response.ok THEN [st |-> "rejected", ok |-> FALSE, items |-> <<>>]
    ELSE [st |-> "fulfilled", ok |-> TRUE,
          items |-> IF sourceTypeOf(sourceConfig) = "html"
                    THEN scrapeHtmlNews(response.entries, sourceConfig, faviconUrl, now)
                    ELSE rssItems(response.entries, urlOf(sourceConfig), faviconUrl)]

\* One promise of fetchPromises when its request settles (287-316 with
\* 243-247): a failure is caught and the promise is fulfilled with []
fetchSettled(sourceConfig, faviconUrl, response, now) ==
    IF ~response.ok THEN [st |-> "fulfilled", ok |-> FALSE, items |-> <<>>]
    ELSE [st |-> "fulfilled", ok |-> TRUE,
          items |-> IF sourceTypeOf(sourceConfig) = "html"
                    THEN scrapeHtmlNews(response.entries, sourceConfig, faviconUrl, now)
                    ELSE rssItems(response.entries, urlOf(sourceConfig), faviconUrl)]

---------------------------------------------------------------------------
(* The backend: one record per GET_NEWS received (a cycle) *)

Cycles == 1..MaxCycles

IdleCycle ==
    [pc |-> "idle", urls |-> <<>>, newsHoursBack |-> 0, cutoffTime |-> DateAt(0), tasks |-> <<>>,
     faviconMap |-> [u \in Urls |-> Undefined], feeds |-> <<>>, order |-> <<>>,
     now |-> 0]

IU == [cache |-> cache, files |-> files, indexFile |-> indexFile, old |-> old]

SetIU(iu) ==
    /\ cache' = iu.cache
    /\ files' = iu.files
    /\ indexFile' = iu.indexFile
    /\ old' = iu.old

\* The history of the IconUtils object: the source URLs a getFaviconUrl call
\* has returned for since construction (returned), those for which a later
\* call went to the network again (again), the cache files that were
\* written while they existed (overwritten), the data URL that the first
\* call which wrote the cache file of a source returned (persisted), the
\* sources whose file was so written by an earlier process (restored), and whether
\* the object and its directory are as the constructor left them (fresh).
NoHist ==
    [returned |-> {}, again |-> {}, overwritten |-> {},
     persisted |-> [u \in Urls |-> Null], restored |-> {}, fresh |-> TRUE]

\* getFaviconUrls has started the calls of a batch (1139-1142)
histStarted(h, rssUrls, tasks) ==
    LET idx == 1..Len(tasks)
    IN  [h EXCEPT
            !.returned = @ \cup {rssUrls[i] : i \in {j \in idx : tasks[j].st = "done"}},
            !.again = @ \cup {rssUrls[i] : i \in {j \in idx : /\ tasks[j].st = "html"
                                                               /\ rssUrls[j] \in h.returned}},
            !.fresh = FALSE]

\* a call for rssUrl has returned ret after its download settled with
\* iconData (saveIconToCache, 112-116, has written the file or has not)
histDownloaded(h, iu, rssUrl, iconUrl, iconData, ret) ==
    LET wrote == downloadAndCacheIcon(iu, iconUrl, rssUrl, iconData).ret[1] = "file"
    IN  [h EXCEPT
            !.returned = @ \cup {rssUrl},
            !.overwritten = IF wrote /\ iu.files[CachePath(rssUrl)] # NoFile
                            THEN @ \cup {CachePath(rssUrl)} ELSE @,
            !.persisted[rssUrl] = IF wrote /\ ret[1] = "data" /\ @ = Null
                                  THEN ret ELSE @,
            !.restored = IF wrote THEN @ \ {rssUrl} ELSE @,
            !.fresh = FALSE]

\* the files of the paths in gone were removed or changed behind the object
histSwept(h, gone) ==
    [h EXCEPT !.persisted = [u \in Urls |-> IF CachePath(u) \in gone THEN Null ELSE @[u]],
              !.restored = @ \ {u \in Urls : CachePath(u) \in gone},
              !.fresh = FALSE]

\* No function has been called.
NoCall == [fn |-> "none"]

\* One call of downloadAndCacheIcon followed event by event: where it is
\* (st), the bytes and the chunks received, whether the request was
\* destroyed and the response ended, what the promise of
\* downloadFileToBuffer was resolved with (null, or a buffer of length
\* bytes), and the length of the buffer handed to saveIconToCache (0: none).
NoDownload ==
    [st |-> "idle", totalBytes |-> 0, chunks |-> 0, destroyed |-> FALSE,
     ended |-> FALSE, resolved |-> FALSE, isNull |-> FALSE, length |-> 0,
     saved |-> 0]

\* 1024 * 1024, the limit of a download
MaxSize == 1048576

\* The chunks of a response followed are at most MaxChunks.
MaxChunks == 3
ChunkSizes == {1, 2, 524288, 1048575, 1048576, 1048577}

\* resolve(value): the first call settles the promise, later ones do nothing
resolve(d, isNull, length) ==
    IF d.resolved THEN d
    ELSE [d EXCEPT !.resolved = TRUE, !.isNull = isNull, !.length = length]

\* A bug the handler could have: the bytes are counted after the check.
onData_checkBefore(d, n) ==
    LET got == [d EXCEPT !.totalBytes = @ + n, !.chunks = @ + 1]
    IN  IF d.totalBytes > MaxSize
        THEN resolve([got EXCEPT !.destroyed = TRUE], TRUE, 0)
        ELSE got

\* res.on('data') for a chunk of n bytes (718-727)
onData(d, n) ==
    LET got == [d EXCEPT !.totalBytes = @ + n, !.chunks = @ + 1]
    IN  IF got.totalBytes > MaxSize
        THEN resolve([got EXCEPT !.destroyed = TRUE], TRUE, 0)   \* req.destroy()
        ELSE got

Notification(type, c, payload) == [type |-> type, cycle |-> c, payload |-> payload]

\* getFaviconUrls (1135-1142): every getFaviconUrl runs to its first await,
\* in list order: [iu, tasks]
RECURSIVE startTasks(_, _)
startTasks(iu, rssUrls) ==
    IF rssUrls = <<>> THEN [iu |-> iu, tasks |-> <<>>]
    ELSE LET a == getFaviconUrl_start(iu, Head(rssUrls))
             rest == startTasks(a.iu, Tail(rssUrls))
         IN  [iu |-> rest.iu, tasks |-> <<a.task>> \o rest.tasks]

\* results.set(url, faviconUrl) of the calls that returned without awaiting
\* a request, in list order
setResults(rssUrls, tasks) ==
    [u \in Urls |->
        LET done == {i \in 1..Len(tasks) : rssUrls[i] = u /\ tasks[i].st = "done"}
        IN  IF done = {} THEN Undefined
            ELSE tasks[CHOOSE i \in done : \A j \in done : j <= i].res]

\* A bug the results handler could have: the results are taken in the
\* order in which the fetches settled.
processFeeds_completionOrder(cyc, now) ==
    sortItems(filterItems(flat([k \in 1..Len(cyc.order) |-> cyc.feeds[cyc.order[k]].items]),
                          cyc.cutoffTime, now))

\* the second .then handler of getNews (322-365): flatten, filter, sort.
\* feedsResults is in the order of urlArray; cyc.order, the order in which
\* the fetches settled, is not read.
processFeeds(cyc, now) ==
    sortItems(filterItems(flat([i \in 1..Len(cyc.feeds) |-> cyc.feeds[i].items]),
                          cyc.cutoffTime, now))

\* A bug the batch could have: the map is handed on when the first call
\* has returned.
Progress_firstDone(c, cyc0, now) ==
    LET cyc == IF /\ cyc0.pc = "icons"
                  /\ \E i \in 1..Len(cyc0.tasks) : cyc0.tasks[i].st = "done"
                  /\ \A i \in 1..Len(cyc0.tasks) : cyc0.tasks[i].st # "rejected"
               THEN [cyc0 EXCEPT
                        !.pc = "fetching",
                        !.tasks = <<>>,
                        !.feeds = [i \in 1..Len(cyc0.urls) |->
                                      [st |-> "pending", ok |-> FALSE, items |-> <<>>,
                                       favicon |-> cyc0.faviconMap[urlOf(cyc0.urls[i])]]]]
               ELSE cyc0
    IN  IF cyc.pc = "icons" /\ \E i \in 1..Len(cyc.tasks) : cyc.tasks[i].st = "rejected"
        THEN [cyc |-> [cyc EXCEPT !.pc = "failed"],
              out |-> <<Notification("NEWS_ERROR", c, <<>>)>>]
        ELSE IF cyc.pc = "fetching" /\ \A i \in 1..Len(cyc.feeds) : cyc.feeds[i].st = "fulfilled"
        THEN [cyc |-> [cyc EXCEPT !.pc = "done", !.now = now],
              out |-> <<Notification("NEWS_RESULT", c, processFeeds(cyc, now))>>]
        ELSE [cyc |-> cyc, out |-> <<>>]

\* What follows in the same turn of the event loop once a promise of the
\* cycle settled: Promise.all of the icon batch (1144) and the first .then
\* handler (276-320), Promise.all of the fetch batch and the second .then
\* handler, or the .catch handler (367-371): [cyc, out]
Progress(c, cyc0, now) ==
    LET cyc == IF cyc0.pc = "icons" /\ \A i \in 1..Len(cyc0.tasks) : cyc0.tasks[i].st = "done"
               THEN [cyc0 EXCEPT
                        !.pc = "fetching",
                        !.tasks = <<>>,              \* the calls have returned
                        !.feeds = [i \in 1..Len(cyc0.urls) |->
                                      [st |-> "pending", ok |-> FALSE, items |-> <<>>,
                                       favicon |-> cyc0.faviconMap[urlOf(cyc0.urls[i])]]]]
               ELSE cyc0
    IN  IF cyc.pc = "icons" /\ \E i \in 1..Len(cyc.tasks) : cyc.tasks[i].st = "rejected"
        THEN [cyc |-> [cyc EXCEPT !.pc = "failed"],
              out |-> <<Notification("NEWS_ERROR", c, <<>>)>>]
        ELSE IF cyc.pc = "fetching" /\ \E i \in 1..Len(cyc.feeds) : cyc.feeds[i].st = "rejected"
        THEN [cyc |-> [cyc EXCEPT !.pc = "failed"],
              out |-> <<Notification("NEWS_ERROR", c, <<>>)>>]
        ELSE IF cyc.pc = "fetching" /\ \A i \in 1..Len(cyc.feeds) : cyc.feeds[i].st = "fulfilled"
        THEN [cyc |-> [cyc EXCEPT !.pc = "done", !.now = now],
              out |-> <<Notification("NEWS_RESULT", c, processFeeds(cyc, now))>>]
        ELSE [cyc |-> cyc, out |-> <<>>]

\* socketNotificationReceived("GET_NEWS", config) and getNews up to its
\* return (250-275).  A null element of the list makes source.url throw
\* before the promise chain exists.
GetNews(c, config) ==
    /\ cycles[c].pc = "idle"
    /\ \A d \in 1..(c - 1) : cycles[d].pc # "idle"
    /\ LET urlArray == config.urls
           supplied == "newsHoursBack" \in DOMAIN config
           newsHoursBack == IF config.isArray THEN DefaultHoursBack
                            ELSE IF supplied THEN config.newsHoursBack
                            ELSE Undefined
           cutoffTime == IF config.isArray \/ supplied            \* setHours(NaN)
                         THEN DateAt(clock - newsHoursBack) ELSE InvalidDate
       IN  IF \E i \in 1..Len(urlArray) : urlArray[i].shape = "null"
           THEN /\ cycles' = [cycles EXCEPT ![c] =
                        [IdleCycle EXCEPT !.pc = "thrown", !.urls = urlArray,
                                          !.newsHoursBack = newsHoursBack,
                                          !.cutoffTime = cutoffTime]]
                /\ UNCHANGED <<clock, sent, cache, files, indexFile, old, hist, dl, call, front>>
           ELSE LET urlsForFavicon == [i \in 1..Len(urlArray) |-> urlOf(urlArray[i])]
                    b == startTasks(IU, urlsForFavicon)
                    p == Progress(c,
                            [IdleCycle EXCEPT
                                !.pc = "icons", !.urls = urlArray,
                                !.newsHoursBack = newsHoursBack,
                                !.cutoffTime = cutoffTime, !.tasks = b.tasks,
                                !.faviconMap = setResults(urlsForFavicon, b.tasks)],
                            clock)
                IN  /\ cycles' = [cycles EXCEPT ![c] = p.cyc]
                    /\ sent' = sent \o p.out
                    /\ SetIU(b.iu)
                    /\ hist' = histStarted(hist, urlsForFavicon, b.tasks)
                    /\ UNCHANGED <<clock, dl, call, front>>

\* fetchHTML of task i of cycle c settles.
HtmlResponse(c, i, html) ==
    /\ i \in 1..Len(cycles[c].tasks)
    /\ cycles[c].tasks[i].st = "html"
    /\ cycles' = [cycles EXCEPT ![c].tasks[i] =
                      getFaviconUrl_html(urlOf(cycles[c].urls[i]), html)]
    /\ UNCHANGED <<clock, sent, cache, files, indexFile, old, hist, dl, call, front>>

\* The request of fetchHTML of task i of cycle c is answered 301, 302, 307
\* or 308 with a Location: fetchHTML calls itself for it (303-314), and the
\* promise waits for that of the new request.
HtmlRedirect(c, i) ==
    /\ i \in 1..Len(cycles[c].tasks)
    /\ cycles[c].tasks[i].st = "html"
    /\ cycles' = [cycles EXCEPT ![c].tasks[i].at = Location(@)]
    /\ UNCHANGED <<clock, sent, cache, files, indexFile, old, hist, dl, call, front>>

\* The request of downloadFileToBuffer of task i of cycle c is answered 3xx
\* with a Location: downloadFileToBuffer calls itself for it (697-711).
DownloadRedirect(c, i) ==
    /\ i \in 1..Len(cycles[c].tasks)
    /\ cycles[c].tasks[i].st = "download"
    /\ cycles' = [cycles EXCEPT ![c].tasks[i].at = Location(@)]
    /\ UNCHANGED <<clock, sent, cache, files, indexFile, old, hist, dl, call, front>>

\* downloadFileToBuffer of task i of cycle c settles.
DownloadResponse(c, i, iconData) ==
    /\ i \in 1..Len(cycles[c].tasks)
    /\ cycles[c].tasks[i].st = "download"
    /\ LET rssUrl == urlOf(cycles[c].urls[i])
           r == getFaviconUrl_download(IU, rssUrl, cycles[c].tasks[i].iconUrl, iconData)
           p == Progress(c,
                   [cycles[c] EXCEPT !.tasks[i] = [@ EXCEPT !.st = "done",
                                                            !.data = iconData,
                                                            !.res = r.ret],
                                     !.faviconMap[rssUrl] = r.ret],
                   clock)
       IN  /\ cycles' = [cycles EXCEPT ![c] = p.cyc]
           /\ sent' = sent \o p.out
           /\ SetIU(r.iu)
           /\ hist' = histDownloaded(hist, IU, rssUrl, cycles[c].tasks[i].iconUrl,
                                     iconData, r.ret)
           /\ UNCHANGED <<clock, dl, call, front>>

\* The request of source i of cycle c settles.
FetchResponse(c, i, response) ==
    /\ cycles[c].pc = "fetching"
    /\ i \in 1..Len(cycles[c].feeds)
    /\ cycles[c].feeds[i].st = "pending"
    /\ LET s == fetchSettled(cycles[c].urls[i], cycles[c].feeds[i].favicon, response, clock)
           p == Progress(c,
                   [cycles[c] EXCEPT !.feeds[i] =
                       [st |-> s.st, ok |-> s.ok, items |-> s.items,
                        favicon |-> cycles[c].feeds[i].favicon],
                                     !.order = Append(@, i)],
                   clock)
       IN  /\ cycles' = [cycles EXCEPT ![c] = p.cyc]
           /\ sent' = sent \o p.out
           /\ UNCHANGED <<clock, cache, files, indexFile, old, hist, dl, call, front>>

\* An hour passes.
Tick ==
    /\ clock < MaxClock
    /\ clock' = clock + 1
    /\ UNCHANGED <<cycles, sent, cache, files, indexFile, old, hist, dl, call, front>>

\* Thirty days pass for a cache file.
FileAges(p) ==
    /\ files[p] # NoFile
    /\ p \notin old
    /\ old' = old \cup {p}
    /\ UNCHANGED <<clock, cycles, sent, cache, files, indexFile, hist, dl, call, front>>

CleanupOldCache ==
    /\ old # {}
    /\ SetIU(cleanupOldCache(IU))
    /\ hist' = histSwept(hist, old)
    /\ UNCHANGED <<clock, cycles, sent, dl, call, front>>

ClearCache ==
    /\ \E p \in Paths : files[p] # NoFile
    /\ SetIU(clearCache(IU))
    /\ hist' = histSwept(hist, Paths)
    /\ UNCHANGED <<clock, cycles, sent, dl, call, front>>

\* A cache file is truncated or overwritten behind the object.
FileCorrupted(p, data) ==
    /\ files[p] \notin {NoFile, data}
    /\ files' = [files EXCEPT ![p] = data]
    /\ hist' = histSwept(hist, {p})
    /\ UNCHANGED <<clock, cycles, sent, cache, indexFile, old, dl, call, front>>

\* The process ends and a new one constructs its IconUtils over the
\* directory as it is; the requests of the old one are gone with it.
Restart ==
    /\ ~hist.fresh
    /\ SetIU(constructor([files |-> files, indexFile |-> indexFile, old |-> old]))
    /\ cycles' = [c \in Cycles |-> IdleCycle]
    /\ sent' = <<>>
    /\ hist' = [NoHist EXCEPT !.persisted = hist.persisted,
                              !.restored = {u \in Urls : hist.persisted[u] # Null}]
    /\ UNCHANGED <<clock, dl, call, front>>

\* downloadAndCacheIcon calls downloadFileToBuffer, which sends the request.
DlRequest ==
    /\ dl.st = "idle"
    /\ dl' = [dl EXCEPT !.st = "requested"]
    /\ UNCHANGED <<clock, cycles, sent, cache, files, indexFile, old, hist, call, front>>

\* The response arrives: status 200, or another one (resolve(null)).
DlStatus(ok) ==
    /\ dl.st = "requested"
    /\ ~dl.resolved
    /\ dl' = IF ok THEN [dl EXCEPT !.st = "receiving"] ELSE resolve(dl, TRUE, 0)
    /\ UNCHANGED <<clock, cycles, sent, cache, files, indexFile, old, hist, call, front>>

\* A chunk of n bytes arrives.
DlData(n) ==
    /\ dl.st = "receiving"
    /\ ~dl.destroyed
    /\ ~dl.ended
    /\ dl.chunks < MaxChunks
    /\ dl' = onData(dl, n)
    /\ UNCHANGED <<clock, cycles, sent, cache, files, indexFile, old, hist, call, front>>

\* res.on('end'): resolve(dataBuffer)
DlEnd ==
    /\ dl.st = "receiving"
    /\ ~dl.destroyed
    /\ ~dl.ended
    /\ dl' = resolve([dl EXCEPT !.ended = TRUE], FALSE, dl.totalBytes)
    /\ UNCHANGED <<clock, cycles, sent, cache, files, indexFile, old, hist, call, front>>

\* An error of the request or of the response, or the timeout of the
\* request: resolve(null)
DlError ==
    /\ dl.st \in {"requested", "receiving"}
    /\ ~dl.resolved
    /\ dl' = resolve([dl EXCEPT !.destroyed = TRUE], TRUE, 0)
    /\ UNCHANGED <<clock, cycles, sent, cache, files, indexFile, old, hist, call, front>>

\* downloadAndCacheIcon goes on after its await (196-212) with data that
\* isValidImageData accepts or rejects.
DlReturn(valid) ==
    /\ dl.st \in {"requested", "receiving"}
    /\ dl.resolved
    /\ dl' = [dl EXCEPT !.st = "returned",
                        !.saved = IF dl.isNull \/ dl.length = 0 \/ ~valid
                                  THEN 0 ELSE dl.length]
    /\ UNCHANGED <<clock, cycles, sent, cache, files, indexFile, old, hist, call, front>>

\* The next download.
DlNext ==
    /\ dl.st = "returned"
    /\ dl' = NoDownload
    /\ UNCHANGED <<clock, cycles, sent, cache, files, indexFile, old, hist, call, front>>

\* parseHtmlForFavicon is called for a page of a site.
CallParseHtmlForFavicon(html, baseUrl) ==
    /\ call = NoCall
    /\ call' = [fn |-> "parseHtmlForFavicon", html |-> html, baseUrl |-> baseUrl,
                ret |-> parseHtmlForFavicon(html, baseUrl)]
    /\ UNCHANGED <<clock, cycles, sent, cache, files, indexFile, old, hist, dl, front>>

\* isValidImageData is called for a buffer and the URL or path it is from.
CallIsValidImageData(imageData, originalUrl) ==
    /\ call = NoCall
    /\ call' = [fn |-> "isValidImageData", imageData |-> imageData,
                originalUrl |-> originalUrl,
                ret |-> isValidImageData(imageData, originalUrl)]
    /\ UNCHANGED <<clock, cycles, sent, cache, files, indexFile, old, hist, dl, front>>

\* downloadAndCacheIcon has awaited a download that yielded iconData; the
\* call records what it returned and the cache files after it.
CallDownloadAndCacheIcon(iconUrl, sourceUrl, iconData) ==
    /\ call = NoCall
    /\ LET r == downloadAndCacheIcon(IU, iconUrl, sourceUrl, iconData)
       IN  call' = [fn |-> "downloadAndCacheIcon", iconUrl |-> iconUrl,
                    sourceUrl |-> sourceUrl, iconData |-> iconData,
                    ret |-> r.ret, files |-> r.iu.files]
    /\ UNCHANGED <<clock, cycles, sent, cache, files, indexFile, old, hist, dl, front>>

\* getFaviconUrl resumes after its download (1090-1101): the call records
\* what downloadAndCacheIcon returned, what getFaviconUrl returned, and the
\* cache files and the map after it.
CallGetFaviconUrlDownload(rssUrl, iconUrl, iconData) ==
    /\ call = NoCall
    /\ LET d == downloadAndCacheIcon(IU, iconUrl, rssUrl, iconData)
           r == getFaviconUrl_download(IU, rssUrl, iconUrl, iconData)
       IN  call' = [fn |-> "getFaviconUrl", rssUrl |-> rssUrl, iconUrl |-> iconUrl,
                    iconData |-> iconData, cachedPath |-> d.ret,
                    ret |-> r.ret, files |-> r.iu.files, cache |-> r.iu.cache,
                    entries |-> r.iu.indexFile.entries]
    /\ UNCHANGED <<clock, cycles, sent, cache, files, indexFile, old, hist, dl, front>>

\* fileToDataUrl is called for the cache file of sourceUrl holding fileData.
CallFileToDataUrl(sourceUrl, fileData) ==
    /\ call = NoCall
    /\ LET filePath == CachePath(sourceUrl)
           r == fileToDataUrl([IU EXCEPT !.files[filePath] = fileData], filePath)
       IN  call' = [fn |-> "fileToDataUrl", fileData |-> fileData,
                    ret |-> r.ret, files |-> r.iu.files]
    /\ UNCHANGED <<clock, cycles, sent, cache, files, indexFile, old, hist, dl, front>>

\* scrapeHtmlNews is called for a page of an HTML source at time now.
CallScrapeHtmlNews(entries, sourceConfig, now) ==
    /\ call = NoCall
    /\ call' = [fn |-> "scrapeHtmlNews", entries |-> entries,
                sourceConfig |-> sourceConfig, now |-> now,
                ret |-> scrapeHtmlNews(entries, sourceConfig, Null, now)]
    /\ UNCHANGED <<clock, cycles, sent, cache, files, indexFile, old, hist, dl, front>>

\* The fetch of one source of getNews (285-319) settles with a response.
CallFetch(sourceConfig, response, now) ==
    /\ call = NoCall
    /\ call' = [fn |-> "fetch", sourceConfig |-> sourceConfig,
                entries |-> response.entries, now |-> now,
                ret |-> fetchSettled(sourceConfig, Null, response, now).items]
    /\ UNCHANGED <<clock, cycles, sent, cache, files, indexFile, old, hist, dl, front>>

---------------------------------------------------------------------------
(* The module in the browser (MMM-IsraelNews.js).  Time is counted in      *)
(* units of 100 seconds.                                                   *)

\* 5 * 60 * 1000 ms, the period of the health check (130)
HealthCheckPeriod == 3

\* maxRetries of updateState (50)
MaxRetries == 3

\* Date.now() when the browser loads the module
Epoch == 10
MaxTime == 22

\* The backend answers a GET_NEWS before MaxDelay units have passed.
MaxDelay == 1
MaxPending == 2
MaxTimeouts == 1

\* updateInterval of the defaults (5): 300 s
DefaultUpdateInterval == 3

\* updateInterval of the configuration: 100 s, or the default
UpdateIntervals == {1, DefaultUpdateInterval}

\* Module.register: the object before start is called
Registered(updateInterval) ==
    [mode |-> "registered",
     config |-> [updateInterval |-> updateInterval],
     newsItems |-> <<>>, loaded |-> FALSE,
     updateState |-> [healthCheckId |-> FALSE, isRequestInProgress |-> FALSE,
                      lastUpdateTime |-> 0, retryCount |-> 0],
     healthDue |-> 0, timeouts |-> 0, domCreated |-> FALSE,
     requests |-> 0, requestTime |-> 0, time |-> Epoch,
     received |-> "none",   \* the last notification of the backend (history)
     stopNews |-> FALSE]    \* STOP_NEWS was sent and no GET_NEWS since (history)

\* initializeState (44-54); a lastUpdateTime of null is 0, as the health
\* check reads it (lastUpdateTime || 0).
initializeState(self) ==
    [self EXCEPT !.updateState = [healthCheckId |-> FALSE, isRequestInProgress |-> FALSE,
                                  lastUpdateTime |-> 0, retryCount |-> 0]]

\* clearAllTimers (69-88)
clearAllTimers(self) ==
    [self EXCEPT !.updateState.healthCheckId = FALSE]

\* requestNewsUpdate (90-104): one GET_NEWS on the socket unless a request
\* is in progress.
requestNewsUpdate(self) ==
    IF self.updateState.isRequestInProgress
    THEN self
    ELSE [self EXCEPT !.updateState.isRequestInProgress = TRUE,
                      !.requests = @ + 1,
                      !.requestTime = self.time,
                      !.stopNews = FALSE]

\* setupHealthMonitoring (108-133): the interval is set.
setupHealthMonitoring(self) ==
    [self EXCEPT !.updateState.healthCheckId = TRUE,
                 !.healthDue = self.time + HealthCheckPeriod]

\* startUpdateCycle (56-67)
startUpdateCycle(self) ==
    setupHealthMonitoring(requestNewsUpdate(clearAllTimers(self)))

\* handleHealthCheckFailure (135-149)
handleHealthCheckFailure(self) ==
    LET counted == [self EXCEPT !.updateState.retryCount = @ + 1]
    IN  IF counted.updateState.retryCount > MaxRetries
        THEN counted
        ELSE requestNewsUpdate([counted EXCEPT !.updateState.isRequestInProgress = FALSE])

\* The callback of the health check (114-128):
\* timeSinceLastUpdate > expectedInterval * 2.5
healthCheck(self) ==
    LET timeSinceLastUpdate == self.time - self.updateState.lastUpdateTime
        expectedInterval == self.config.updateInterval
    IN  IF 2 * timeSinceLastUpdate > 5 * expectedInterval
        THEN handleHealthCheckFailure(self)
        ELSE self

\* socketNotificationReceived with an error counted as an update
frontNotificationReceived_errorAsUpdate(self, notification, payload) ==
    IF notification = "NEWS_RESULT"
    THEN [self EXCEPT !.updateState.isRequestInProgress = FALSE,
                      !.updateState.lastUpdateTime = self.time,
                      !.updateState.retryCount = 0,
                      !.newsItems = payload,
                      !.loaded = TRUE]
    ELSE IF notification = "NEWS_ERROR"
    THEN [self EXCEPT !.updateState.isRequestInProgress = FALSE,
                      !.updateState.lastUpdateTime = self.time,
                      !.updateState.retryCount = 0,
                      !.loaded = TRUE]
    ELSE self

\* socketNotificationReceived of the module (155-186)
frontNotificationReceived(self, notification, payload) ==
    IF notification = "NEWS_RESULT"
    THEN [self EXCEPT !.updateState.isRequestInProgress = FALSE,
                      !.updateState.lastUpdateTime = self.time,
                      !.updateState.retryCount = 0,
                      !.newsItems = payload,
                      !.loaded = TRUE]
    ELSE IF notification = "NEWS_ERROR"
    THEN [self EXCEPT !.updateState.isRequestInProgress = FALSE,
                      !.loaded = TRUE]
    ELSE self

\* getDom (248-338): the text of the wrapper, or the items it lists.
getDom(self) ==
    IF ~self.loaded THEN [text |-> "Loading news...", items |-> <<>>]
    ELSE IF Len(self.newsItems) = 0 THEN [text |-> "No news available", items |-> <<>>]
    ELSE [text |-> "", items |-> self.newsItems]

OtherVars == <<clock, cycles, sent, cache, files, indexFile, old, hist, dl, call>>

\* start (26-42)
Start ==
    /\ front.mode = "registered"
    /\ front' = startUpdateCycle(initializeState(
                    [front EXCEPT !.mode = "running", !.newsItems = <<>>,
                                  !.loaded = FALSE]))
    /\ UNCHANGED OtherVars

\* notificationReceived("DOM_OBJECTS_CREATED") (230-241): intervalId is
\* never set, so the restart is always scheduled (200 ms).
DomObjectsCreated ==
    /\ front.mode # "registered"
    /\ ~front.domCreated
    /\ front.timeouts < MaxTimeouts
    /\ front' = [front EXCEPT !.domCreated = TRUE, !.timeouts = @ + 1]
    /\ UNCHANGED OtherVars

\* The callback of a setTimeout of resume or notificationReceived runs.
TimeoutFires ==
    /\ front.timeouts > 0
    /\ front.requests < MaxPending
    /\ front' = startUpdateCycle([front EXCEPT !.timeouts = @ - 1])
    /\ UNCHANGED OtherVars

\* The interval of the health check fires.
HealthCheck ==
    /\ front.updateState.healthCheckId
    /\ front.time = front.healthDue
    /\ front.requests < MaxPending
    /\ front' = healthCheck([front EXCEPT !.healthDue = front.time + HealthCheckPeriod])
    /\ UNCHANGED OtherVars

\* The backend answers a GET_NEWS with NEWS_RESULT or NEWS_ERROR.
Notified(notification, payload) ==
    /\ front.requests > 0
    /\ front' = frontNotificationReceived(
                    [front EXCEPT !.requests = @ - 1, !.received = notification],
                    notification, payload)
    /\ UNCHANGED OtherVars

\* updateNews (189-192)
UpdateNews ==
    /\ front.mode = "running"
    /\ front.requests < MaxPending
    /\ ~front.updateState.isRequestInProgress
    /\ front' = requestNewsUpdate(front)
    /\ UNCHANGED OtherVars

\* stop (194-205); the backend ignores STOP_NEWS.
Stop ==
    /\ front.mode \in {"running", "suspended"}
    /\ front' = [clearAllTimers(front) EXCEPT !.mode = "stopped", !.stopNews = TRUE,
                                             !.updateState.isRequestInProgress = FALSE,
                                             !.updateState.retryCount = 0]
    /\ UNCHANGED OtherVars

\* suspend (207-219)
Suspend ==
    /\ front.mode = "running"
    /\ front' = [clearAllTimers(front) EXCEPT !.mode = "suspended", !.stopNews = TRUE,
                                             !.updateState.isRequestInProgress = FALSE]
    /\ UNCHANGED OtherVars

\* resume (221-228): startUpdateCycle after 100 ms
Resume ==
    /\ front.mode = "suspended"
    /\ front.timeouts < MaxTimeouts
    /\ front' = [front EXCEPT !.mode = "running", !.timeouts = @ + 1]
    /\ UNCHANGED OtherVars

\* 100 seconds pass: no timeout is pending, the health check is not due
\* and the backend is not late.
Elapse ==
    /\ front.time < MaxTime
    /\ front.timeouts = 0
    /\ ~(front.updateState.healthCheckId /\ front.time = front.healthDue)
    /\ front.requests = 0 \/ front.time - front.requestTime < MaxDelay
    /\ front' = [front EXCEPT !.time = @ + 1]
    /\ UNCHANGED OtherVars

\* The cache directories the process may find when it starts.
EmptyDisk ==
    [files |-> [p \in Paths |-> NoFile],
     indexFile |-> [exists |-> FALSE, entries |-> [u \in Urls |-> NoPath]],
     old |-> {}]

DiskWith(cached) ==
    [files |-> [p \in Paths |-> IF \E u \in cached : p = CachePath(u) THEN "png" ELSE NoFile],
     indexFile |-> [exists |-> TRUE,
                    entries |-> [u \in Urls |-> IF u \in cached THEN CachePath(u) ELSE NoPath]],
     old |-> {}]

InitBackend(disks) ==
    /\ clock = 1
    /\ cycles = [c \in Cycles |-> IdleCycle]
    /\ sent = <<>>
    /\ \E disk \in disks :
         LET iu == constructor(disk)
         IN  /\ cache = iu.cache
             /\ files = iu.files
             /\ indexFile = iu.indexFile
             /\ old = iu.old
    /\ hist = NoHist
    /\ dl = NoDownload
    /\ call = NoCall

InitOn(disks) ==
    /\ InitBackend(disks)
    /\ front = Registered(DefaultUpdateInterval)

---------------------------------------------------------------------------
(* The backend: GET_NEWS requests, overlapping, over a cache directory     *)
(* that is empty or holds the icon of u1.                                  *)

Init == InitOn({EmptyDisk, DiskWith({"u1"})})

Next ==
    \/ \E c \in Cycles, config \in Payloads : GetNews(c, config)
    \/ \E c \in Cycles, i \in 1..2, html \in HtmlMenu \cup {HtmlFailed} :
          HtmlResponse(c, i, html)
    \/ \E c \in Cycles, i \in 1..2, d \in {"png", "junk", NoData} :
          DownloadResponse(c, i, d)
    \/ \E c \in Cycles, i \in 1..2, f \in FeedMenu : FetchResponse(c, i, Fetched(f))
    \/ \E c \in Cycles, i \in 1..2 : FetchResponse(c, i, FetchFailed)

Spec == Init /\ [][Next]_vars

---------------------------------------------------------------------------
(* The results handler of getNews on every feed of up to MaxItems entries: *)
(* one request for two RSS sources whose icons are cached, while time      *)
(* passes.                                                                 *)

InitSort == InitOn({DiskWith(Urls)})

SortPayloads ==
    { [isArray |-> FALSE, urls |-> <<SrcString("u1"), SrcString("u2")>>, newsHoursBack |-> 1],
      ArrayPayload(<<SrcString("u1"), SrcString("u2")>>) }

NextSort ==
    \/ \E config \in SortPayloads : GetNews(1, config)
    \/ \E f \in AllFeeds : FetchResponse(1, 1, Fetched(f))
    \/ \E f \in FeedMenu : FetchResponse(1, 2, Fetched(f))
    \/ Tick

SpecSort == InitSort /\ [][NextSort]_vars

---------------------------------------------------------------------------
(* Overlapping requests for two RSS sources whose icons are cached, whose  *)
(* fetches settle in any order, while time passes.                         *)

NextOrder ==
    \/ \E c \in Cycles, config \in SortPayloads : GetNews(c, config)
    \/ \E c \in Cycles, i \in 1..2, f \in FeedMenu : FetchResponse(c, i, Fetched(f))
    \/ Tick

SpecOrder == InitSort /\ [][NextOrder]_vars

---------------------------------------------------------------------------
(* One IconUtils object under the calls of one batch and of the two        *)
(* housekeeping operations, while cache files grow old.                    *)

NextCache ==
    \/ \E config \in Payloads : GetNews(1, config)
    \/ \E i \in 1..2, html \in HtmlMenu \cup {HtmlFailed} : HtmlResponse(1, i, html)
    \/ \E i \in 1..2, d \in Contents \cup {NoData} : DownloadResponse(1, i, d)
    \/ \E p \in Paths : FileAges(p)
    \/ CleanupOldCache
    \/ ClearCache

SpecCache == Init /\ [][NextCache]_vars

---------------------------------------------------------------------------
(* Overlapping requests of a process that is restarted over the directory  *)
(* it has written, which something else may damage.                        *)

\* Every cache directory: each cache file absent, an image, damaged or not
\* readable; the index absent, or naming for each source its file or none.
IndexFiles ==
    {[exists |-> x, entries |-> e] :
        x \in BOOLEAN,
        e \in {f \in [Urls -> Paths \cup {NoPath}] :
                  \A u \in Urls : f[u] \in {NoPath, CachePath(u)}}}

AllDisks ==
    {[files |-> f, indexFile |-> x, old |-> {}] :
        f \in [Paths -> Contents \cup {Unreadable, NoFile}],
        x \in {y \in IndexFiles : y.exists \/ \A u \in Urls : y.entries[u] = NoPath}}

InitDisk == InitOn(AllDisks)

DiskPayloads ==
    { [isArray |-> FALSE, urls |-> <<SrcString("u1")>>, newsHoursBack |-> 1] }

NextDisk ==
    \/ \E c \in Cycles, config \in DiskPayloads : GetNews(c, config)
    \/ \E c \in Cycles, i \in 1..2, html \in HtmlMenu \cup {HtmlFailed} :
          HtmlResponse(c, i, html)
    \/ \E c \in Cycles, i \in 1..2, d \in {"png", "junk", NoData} :
          DownloadResponse(c, i, d)
    \/ \E p \in Paths, data \in {"junk", "empty"} : FileCorrupted(p, data)
    \/ Restart

SpecDisk == InitDisk /\ [][NextDisk]_vars

---------------------------------------------------------------------------
(* The downloads of icons, one after the other, followed chunk by chunk.   *)

NextDownload ==
    \/ DlRequest
    \/ \E ok \in BOOLEAN : DlStatus(ok)
    \/ \E n \in ChunkSizes : DlData(n)
    \/ DlEnd
    \/ DlError
    \/ \E valid \in BOOLEAN : DlReturn(valid)
    \/ DlNext

SpecDownload == InitOn({EmptyDisk}) /\ [][NextDownload]_vars

---------------------------------------------------------------------------
(* One request whose every network request is answered in the end, by a    *)
(* redirect, by a response, by an error or by its timeout.                 *)

HtmlAnswered(c, i) ==
    \/ \E html \in HtmlMenu \cup {HtmlFailed} : HtmlResponse(c, i, html)
    \/ HtmlRedirect(c, i)

DownloadAnswered(c, i) ==
    \/ \E d \in {"png", NoData} : DownloadResponse(c, i, d)
    \/ DownloadRedirect(c, i)

FetchAnswered(c, i) ==
    \/ FetchResponse(c, i, Fetched(<<Entry(1, 8, DateAt(1))>>))
    \/ FetchResponse(c, i, FetchFailed)

\* The pending request of call i, or of source i, of cycle c is answered.
Answered(c, i) ==
    \/ HtmlAnswered(c, i)
    \/ DownloadAnswered(c, i)
    \/ FetchAnswered(c, i)

NextLive ==
    \/ \E config \in Payloads : GetNews(1, config)
    \/ \E i \in 1..2 : Answered(1, i)

SpecLive ==
    /\ Init
    /\ [][NextLive]_vars
    /\ \A i \in 1..2 : WF_vars(Answered(1, i))

---------------------------------------------------------------------------
(* The functions of IconUtils and of the backend called one by one, on     *)
(* every argument of a bounded set.                                        *)

\* A page names at most MaxLinks hrefs and MaxLogos logos.
MaxLinks == 2
MaxLogos == 1

PageNames == {"favicon.ico", "site.ico", "icon32.png", "icon.png", "logo"}
Hrefs ==
    UNION {{ProtocolRelative("d2", n), RootRelative(n), IconUrl("d2", n), Relative(n)} :
              n \in PageNames}
SeqsUpTo(S, n) == UNION {[1..k -> S] : k \in 0..n}
Pages == {Page(links, logos) : links \in SeqsUpTo(Hrefs, MaxLinks),
                               logos \in SeqsUpTo(Hrefs, MaxLogos)}

\* The URLs of icons, and the names a buffer can be from.
IconUrls == {IconUrl(d, n) : d \in {"d1", "d2"}, n \in IconPaths}

\* The elements of a scraped page: trimmed titles of 0 to 6 characters,
\* each date text empty, not a date, or a date.
TitleLengths == {0, 4, 5, 6}
ScrapedPages ==
    UNION {{[i \in 1..n |-> Entry(i, len[i], date[i])] :
               len \in [1..n -> TitleLengths],
               date \in [1..n -> {EmptyDate, TextDate, DateAt(0)}]} : n \in 0..MaxItems}

\* The forms of a source: a string, or an object with type "rss", "html" or
\* none, with a dateSelector or without.
SourceConfigs ==
    {SrcString(u) : u \in Urls}
        \cup {SrcObject(u, type, dateSelector) :
                 u \in Urls, type \in {"rss", "html", "none"}, dateSelector \in BOOLEAN}

NextCall ==
    \/ \E html \in Pages : CallParseHtmlForFavicon(html, "d1")
    \/ \E sourceConfig \in SourceConfigs, entries \in ScrapedPages, now \in 1..MaxClock :
          CallFetch(sourceConfig, Fetched(entries), now)
    \/ \E entries \in ScrapedPages, dateSelector \in BOOLEAN, now \in 1..MaxClock :
          CallScrapeHtmlNews(entries, SrcObject("u2", "html", dateSelector), now)
    \/ \E imageData \in Contents \cup {NoData}, originalUrl \in IconUrls \cup Paths :
          CallIsValidImageData(imageData, originalUrl)
    \/ \E iconUrl \in IconUrls, u \in Urls, iconData \in Contents \cup {NoData} :
          CallDownloadAndCacheIcon(iconUrl, u, iconData)
    \/ \E iconUrl \in IconUrls, u \in Urls, iconData \in Contents \cup {NoData} :
          CallGetFaviconUrlDownload(u, iconUrl, iconData)
    \/ \E u \in Urls, fileData \in Contents \cup {Unreadable, NoFile} :
          CallFileToDataUrl(u, fileData)

SpecCall == InitOn({EmptyDisk}) /\ [][NextCall]_vars

---------------------------------------------------------------------------
(* getNews on requests that supply no newsHoursBack: the bare array of     *)
(* URLs and the object without the field.  Dates reach 25 hours back.      *)

WindowPayloads ==
    { ArrayPayload(<<SrcString("u1")>>),
      [isArray |-> FALSE, urls |-> <<SrcString("u1")>>] }

WindowDates ==
    {EmptyDate} \cup {DateAt(t) : t \in {0 - DefaultHoursBack, 1 - DefaultHoursBack, 0, 1, 2}}

WindowFeeds ==
    UNION {{[i \in 1..n |-> Entry(i, 8, f[i])] : f \in [1..n -> WindowDates]} : n \in 0..MaxItems}

NextWindow ==
    \/ \E c \in Cycles, config \in WindowPayloads : GetNews(c, config)
    \/ \E c \in Cycles, f \in WindowFeeds : FetchResponse(c, 1, Fetched(f))

SpecWindow == InitSort /\ [][NextWindow]_vars

---------------------------------------------------------------------------
(* The module in the browser over a backend that answers every GET_NEWS.   *)

ResultMenu == {<<>>, <<1>>, <<1, 2>>}

NextFront ==
    \/ Start
    \/ DomObjectsCreated
    \/ TimeoutFires
    \/ HealthCheck
    \/ \E payload \in ResultMenu : Notified("NEWS_RESULT", payload)
    \/ Notified("NEWS_ERROR", "error")
    \/ UpdateNews
    \/ Stop
    \/ Suspend
    \/ Resume
    \/ Elapse

InitFront ==
    /\ InitBackend({EmptyDisk})
    /\ \E updateInterval \in UpdateIntervals : front = Registered(updateInterval)

SpecFront == InitFront /\ [][NextFront]_vars

---------------------------------------------------------------------------
(* What the claims speak of *)

\* The notifications cycle c has sent.
Outcomes(c) == {n \in DOMAIN sent : sent[n].cycle = c}

\* The fetch batch of cycle c has settled.
FetchSettled(c) ==
    /\ cycles[c].pc \in {"done", "failed"}
    /\ Len(cycles[c].feeds) > 0
    /\ \A i \in 1..Len(cycles[c].feeds) : cycles[c].feeds[i].st # "pending"

\* All items the fetches of cycle c produced, in source-list order.
AllNewsItems(c) == flat([i \in 1..Len(cycles[c].feeds) |-> cycles[c].feeds[i].items])

Dated(item) == item.pubDate.k = "date"

InWindow(c, item) ==
    /\ ~IsNaNDate(cycles[c].cutoffTime)
    /\ cycles[c].cutoffTime.t <= item.pubDate.t /\ item.pubDate.t <= cycles[c].now

Occurs(item, payload) == \E m \in 1..Len(payload) : payload[m] = item

\* The position of an emitted item in the sequence before the sort.
PreIndex(c, item) == CHOOSE k \in 1..Len(AllNewsItems(c)) : AllNewsItems(c)[k] = item

NewestFirst(payload) ==
    \A m, n \in 1..Len(payload) :
        (m < n /\ Dated(payload[m]) /\ Dated(payload[n]))
            => payload[m].pubDate.t >= payload[n].pubDate.t

UndatedLast(payload) ==
    \A m, n \in 1..Len(payload) :
        (m < n /\ Dated(payload[n])) => Dated(payload[m])

\* C1: when the fetch of a source fails, the source contributes no item and
\* the cycle sends NEWS_RESULT, and no NEWS_ERROR, with exactly the items of
\* the sources that succeeded that pass the filter, in sorted order.
C1_SourceIsolation ==
    \A c \in Cycles :
        (FetchSettled(c) /\ \E i \in 1..Len(cycles[c].feeds) : ~cycles[c].feeds[i].ok)
        => /\ Cardinality(Outcomes(c)) = 1
           /\ \A n \in Outcomes(c) :
                LET payload == sent[n].payload
                    kept == {q \in (1..Len(cycles[c].feeds)) \X (1..Len(AllNewsItems(c))) :
                                /\ cycles[c].feeds[q[1]].ok
                                /\ q[2] <= Len(cycles[c].feeds[q[1]].items)
                                /\ LET it == cycles[c].feeds[q[1]].items[q[2]]
                                   IN  Dated(it) => InWindow(c, it)}
                IN  /\ sent[n].type = "NEWS_RESULT"
                    /\ Len(payload) = Cardinality(kept)
                    /\ \A q \in kept :
                         Occurs(cycles[c].feeds[q[1]].items[q[2]], payload)
                    /\ \A m \in 1..Len(payload) :
                         \E q \in kept : payload[m] = cycles[c].feeds[q[1]].items[q[2]]
                    /\ \A i \in 1..Len(cycles[c].feeds) :
                         ~cycles[c].feeds[i].ok => cycles[c].feeds[i].items = <<>>
                    /\ NewestFirst(payload)
                    /\ UndatedLast(payload)

\* C1 witness: a cycle of two sources, one failed and one that delivered,
\* has sent NEWS_RESULT with items.
C1_Witness ==
    \E c \in Cycles :
        /\ cycles[c].pc = "done"
        /\ Len(cycles[c].feeds) = 2
        /\ \E i, j \in 1..2 : ~cycles[c].feeds[i].ok /\ cycles[c].feeds[j].ok
        /\ \E n \in Outcomes(c) : sent[n].type = "NEWS_RESULT" /\ Len(sent[n].payload) > 0

\* C2 (as claimed): every GET_NEWS received ends with exactly one
\* notification, NEWS_RESULT or NEWS_ERROR, whatever the source list holds,
\* and never sends more than one.
C2_ExactlyOneOutcome ==
    \A c \in Cycles :
        /\ Cardinality(Outcomes(c)) <= 1
        /\ cycles[c].pc \in {"done", "failed", "thrown"} => Cardinality(Outcomes(c)) = 1

\* C3: of the items with a parsable date, the result holds exactly those
\* with cutoff <= date <= now; the cutoff itself is inside, an item later
\* than now is outside.
C3_RecencyWindow ==
    \A c \in Cycles :
        cycles[c].pc = "done" =>
            \A n \in Outcomes(c), k \in 1..Len(AllNewsItems(c)) :
                LET it == AllNewsItems(c)[k]
                IN  Dated(it) => (Occurs(it, sent[n].payload) <=> InWindow(c, it))

\* C3 witness: a result that kept an item dated exactly at the cutoff and
\* dropped one older than the cutoff and one later than now.
C3_Witness ==
    \E c \in Cycles :
        /\ cycles[c].pc = "done"
        /\ \E n \in Outcomes(c), k1, k2, k3 \in 1..Len(AllNewsItems(c)) :
             LET a == AllNewsItems(c)[k1]
                 b == AllNewsItems(c)[k2]
                 d == AllNewsItems(c)[k3]
             IN  /\ Dated(a) /\ a.pubDate.t = cycles[c].cutoffTime.t
                 /\ Occurs(a, sent[n].payload)
                 /\ Dated(b) /\ b.pubDate.t < cycles[c].cutoffTime.t
                 /\ ~Occurs(b, sent[n].payload)
                 /\ Dated(d) /\ d.pubDate.t > cycles[c].now
                 /\ ~Occurs(d, sent[n].payload)

\* C4: an item whose date is empty or unparsable is in the result, whatever
\* the window and the time are.
C4_UndatedKept ==
    \A c \in Cycles :
        cycles[c].pc = "done" =>
            \A n \in Outcomes(c), k \in 1..Len(AllNewsItems(c)) :
                ~Dated(AllNewsItems(c)[k]) => Occurs(AllNewsItems(c)[k], sent[n].payload)

\* C4 witness: a result that holds an item with an empty date and one with
\* an unparsable date, while a dated item was dropped.
C4_Witness ==
    \E c \in Cycles :
        /\ cycles[c].pc = "done"
        /\ \E n \in Outcomes(c), k \in 1..Len(AllNewsItems(c)) :
             /\ Dated(AllNewsItems(c)[k])
             /\ ~Occurs(AllNewsItems(c)[k], sent[n].payload)
             /\ \E m1, m2 \in 1..Len(sent[n].payload) :
                  /\ sent[n].payload[m1].pubDate = EmptyDate
                  /\ sent[n].payload[m2].pubDate = TextDate

C6_UndatedLast ==
    \A c \in Cycles :
        cycles[c].pc = "done" => \A n \in Outcomes(c) : UndatedLast(sent[n].payload)

\* C6 witness: a result with two undated items behind a dated item that all
\* of them preceded before the sort.
C6_Witness ==
    \E c \in Cycles :
        /\ cycles[c].pc = "done"
        /\ \E n \in Outcomes(c) : \E m1, m2, m3 \in 1..Len(sent[n].payload) :
             LET a == sent[n].payload[m1]
                 b == sent[n].payload[m2]
                 d == sent[n].payload[m3]
             IN  /\ m1 < m2 /\ m2 < m3
                 /\ Dated(a) /\ ~Dated(b) /\ ~Dated(d)
                 /\ PreIndex(c, b) < PreIndex(c, a)
                 /\ PreIndex(c, d) < PreIndex(c, a)

Tie(a, b) ==
    \/ ~Dated(a) /\ ~Dated(b)
    \/ Dated(a) /\ Dated(b) /\ a.pubDate.t = b.pubDate.t

\* C7: two items that the dates do not order (equal dates, or both without
\* a parsable date) keep the order they had before the sort.
C7_Stable ==
    \A c \in Cycles :
        cycles[c].pc = "done" =>
            \A n \in Outcomes(c) : \A m1, m2 \in 1..Len(sent[n].payload) :
                (m1 < m2 /\ Tie(sent[n].payload[m1], sent[n].payload[m2]))
                    => PreIndex(c, sent[n].payload[m1]) < PreIndex(c, sent[n].payload[m2])

\* C7 witness: a result with two undated items and two items of one date,
\* in which the sort moved an item.
C7_Witness ==
    \E c \in Cycles :
        /\ cycles[c].pc = "done"
        /\ \E n \in Outcomes(c) : \E m1, m2, m3, m4 \in 1..Len(sent[n].payload) :
             LET pl == sent[n].payload
             IN  /\ m1 < m2 /\ ~Dated(pl[m1]) /\ ~Dated(pl[m2])
                 /\ m3 < m4 /\ Dated(pl[m3]) /\ Dated(pl[m4])
                 /\ pl[m3].pubDate.t = pl[m4].pubDate.t
                 /\ PreIndex(c, pl[m1]) < PreIndex(c, pl[m3])

\* C8 (as claimed): a failure to resolve the favicon of a source, an
\* unparsable source URL included, never makes the cycle send NEWS_ERROR.
C8_IconFailureIsolated ==
    \A c \in Cycles :
        (\E i \in 1..Len(cycles[c].tasks) : cycles[c].tasks[i].st = "rejected")
            => /\ cycles[c].pc # "failed"
               /\ \A n \in Outcomes(c) : sent[n].type # "NEWS_ERROR"

NetworkFailed(task) == task.st = "done" /\ (task.html = "failed" \/ task.data = NoData)

\* C9 (as claimed): when fetching the site HTML or downloading the icon
\* fails, the favicon reference of the source is null.
C9_NullOnNetworkFailure ==
    \A c \in Cycles :
        \A i \in 1..Len(cycles[c].tasks) :
            NetworkFailed(cycles[c].tasks[i]) => cycles[c].tasks[i].res = Null

\* C9 (amended): the reference is then never null.  A failed download
\* yields the remote icon URL that was tried, which after a failed HTML
\* fetch is /favicon.ico of the domain; a failed HTML fetch followed by a
\* download of image data yields the data URL of that image.  The items of
\* the source carry the reference the call returned.
C9_UrlOnNetworkFailure ==
    \A c \in Cycles :
        /\ \A i \in 1..Len(cycles[c].tasks) :
             LET task == cycles[c].tasks[i]
             IN  NetworkFailed(task) =>
                    /\ task.res # Null
                    /\ task.html = "failed" =>
                         task.iconUrl = IconUrl(extractMainDomain(urlOf(cycles[c].urls[i])),
                                                "favicon.ico")
                    /\ task.data = NoData => task.res = task.iconUrl
                    /\ task.data \in {"png", "ico"} =>
                         task.res = <<"data", getMimeType(task.data), task.data>>
        /\ \A i \in 1..Len(cycles[c].feeds) :
             /\ cycles[c].feeds[i].favicon # Null
             /\ cycles[c].feeds[i].favicon # Undefined
             /\ \A j \in 1..Len(cycles[c].feeds[i].items) :
                  cycles[c].feeds[i].items[j].favicon = cycles[c].feeds[i].favicon

\* C9 witness: a call whose HTML fetch and download both failed and a call
\* whose download alone failed have returned.
C9_Witness ==
    \E c, d \in Cycles :
        /\ \E i \in 1..Len(cycles[c].tasks) :
             /\ cycles[c].tasks[i].st = "done"
             /\ cycles[c].tasks[i].html = "failed"
             /\ cycles[c].tasks[i].data = NoData
        /\ \E j \in 1..Len(cycles[d].tasks) :
             /\ cycles[d].tasks[j].st = "done"
             /\ cycles[d].tasks[j].html = "ok"
             /\ cycles[d].tasks[j].data = NoData

\* C10 (as claimed): every source URL of the in-memory map and of the index
\* on disk maps to a cache file that exists and passes isValidImageData.
C10_CacheInvariant ==
    \A u \in Urls :
        (cache[u] # NoPath /\ indexFile.exists /\ indexFile.entries[u] # NoPath)
            => /\ files[cache[u]] # NoFile
               /\ isValidImageData(files[cache[u]], cache[u])

\* C11 (as claimed): of two successive getFaviconUrl calls for one source
\* URL on one IconUtils object only the first goes to the network, whatever
\* the first call returned.
C11_ResolvedOnce == hist.again = {}

\* C14 (as claimed): a cache file is written at most once; no write ever
\* lands on a cache file that exists.
C14_WrittenOnce == hist.overwritten = {}

C20_UsableReturnedUnchanged ==
    \A c \in Cycles :
        \A i \in 1..Len(cycles[c].tasks) :
            LET task == cycles[c].tasks[i]
            IN  (task.html = "ok" /\ UsableExtension(task.iconUrl))
                    => /\ task.st = "done"
                       /\ task.data = "none"
                       /\ task.res = task.iconUrl

\* C20 (amended): on a cache miss the icon URL found is downloaded whatever
\* its extension.  With a usable extension too, the call returns the data
\* URL of the cached file when the download delivers an image, and the URL
\* unchanged only when the download fails or fails validation.
C20_UsableDownloaded ==
    \A c \in Cycles :
        \A i \in 1..Len(cycles[c].tasks) :
            LET task == cycles[c].tasks[i]
            IN  (task.html = "ok" /\ UsableExtension(task.iconUrl))
                    => /\ task.st \in {"download", "done"}
                       /\ task.st = "done" =>
                            /\ task.data # "none"
                            /\ task.data \in {"png", "ico"} =>
                                 task.res = <<"data", getMimeType(task.data), task.data>>
                            /\ task.data \notin {"png", "ico"} =>
                                 task.res = task.iconUrl

\* C20 witness: a call that found a .png icon URL has downloaded it and
\* returned a data URL.
C20_Witness ==
    \E c \in Cycles :
        \E i \in 1..Len(cycles[c].tasks) :
            /\ cycles[c].tasks[i].st = "done"
            /\ cycles[c].tasks[i].html = "ok"
            /\ UsableExtension(cycles[c].tasks[i].iconUrl)
            /\ cycles[c].tasks[i].data = "png"
            /\ cycles[c].tasks[i].res[1] = "data"

C12_CorruptHitCleaned ==
    [][\A c \in Cycles, config \in DiskPayloads :
          GetNews(c, config) =>
            \A i \in 1..Len(config.urls) :
               LET u == urlOf(config.urls[i])
               IN  (ValidUrl(u) /\ files[CachePath(u)] \in {"junk", "empty"}) =>
                     /\ files'[CachePath(u)] = NoFile
                     /\ cache'[u] = NoPath
                     /\ indexFile'.exists
                     /\ indexFile'.entries[u] = NoPath
                     /\ cycles'[c].tasks[i].st = "html"]_vars

\* C13: when a call has written the cache file of a source and returned its
\* data URL, a call for that source of the next process, constructed over
\* the same directory, returns the same data URL without a request.
C13_RoundTrip ==
    \A c \in Cycles : \A i \in 1..Len(cycles[c].urls) :
        LET u == urlOf(cycles[c].urls[i])
        IN  u \in hist.restored =>
              /\ cycles[c].pc = "icons" =>
                    /\ cycles[c].tasks[i].st = "done"
                    /\ cycles[c].tasks[i].res = hist.persisted[u]
              /\ cycles[c].pc \in {"fetching", "done"} =>
                    cycles[c].feeds[i].favicon = hist.persisted[u]

\* C19: when the constructor has returned, every file of the cache
\* directory other than the index can be read and passes validation, and
\* the map holds exactly the entries of the index whose file exists.
C19_StartupClean ==
    hist.fresh =>
      /\ \A p \in Paths :
            files[p] # NoFile =>
               files[p] # Unreadable /\ isValidImageData(files[p], p)
      /\ \A u \in Urls :
            cache[u] = IF /\ indexFile.exists
                          /\ indexFile.entries[u] # NoPath
                          /\ files[indexFile.entries[u]] # NoFile
                       THEN indexFile.entries[u] ELSE NoPath

\* the object of a restarted process over an index with an entry whose file
\* is gone
C19_Witness ==
    /\ hist.fresh
    /\ hist.restored # {}
    /\ indexFile.exists
    /\ \E u \in Urls : indexFile.entries[u] # NoPath /\ files[indexFile.entries[u]] = NoFile

\* C18: a download never yields more than MaxSize bytes: the promise of
\* downloadFileToBuffer is resolved with null once more have arrived, the
\* request being destroyed, and no buffer of more than MaxSize bytes is
\* handed to saveIconToCache.
C18_SizeBound ==
    /\ (dl.resolved /\ ~dl.isNull) => dl.length <= MaxSize
    /\ dl.totalBytes > MaxSize => (dl.resolved /\ dl.isNull /\ dl.destroyed)
    /\ dl.saved <= MaxSize

\* a download that was aborted over the limit has returned, and nothing
\* was saved
C18_Witness ==
    /\ dl.st = "returned"
    /\ dl.totalBytes > MaxSize
    /\ dl.isNull
    /\ dl.saved = 0

\* C17: when every network request is answered in the end, a cycle whose
\* icon batch or fetch batch is pending comes to send its outcome.
C17_CycleTerminates ==
    \A c \in Cycles :
        (cycles[c].pc \in {"icons", "fetching"}) ~> (cycles[c].pc \in {"done", "failed"})

\* The candidates of the page of a call of parseHtmlForFavicon, as found.
Candidates == foundIcons(call.html, call.baseUrl)

\* C21: parseHtmlForFavicon returns the candidate found first among those
\* whose getFaviconPriority is least; when a candidate holds "favicon", what
\* is returned holds it too, whatever candidates hold ".png".
C21_LowestPriorityFirst ==
    (call.fn = "parseHtmlForFavicon" /\ Len(Candidates) > 0) =>
        /\ \E i \in 1..Len(Candidates) :
              /\ call.ret = Candidates[i].url
              /\ \A j \in 1..Len(Candidates) :
                    /\ getFaviconPriority(Candidates[i].url)
                          <= getFaviconPriority(Candidates[j].url)
                    /\ (getFaviconPriority(Candidates[i].url)
                          = getFaviconPriority(Candidates[j].url)) => i <= j
        /\ (\E j \in 1..Len(Candidates) : Includes(Candidates[j].url, "favicon"))
              => Includes(call.ret, "favicon")

\* a page whose first candidate holds only ".png" and whose later one holds
\* "favicon", which is returned
C21_Witness ==
    /\ call.fn = "parseHtmlForFavicon"
    /\ Len(Candidates) > 1
    /\ Includes(Candidates[1].url, ".png")
    /\ ~Includes(Candidates[1].url, "favicon")
    /\ Includes(call.ret, "favicon")
    /\ call.ret # Candidates[1].url

\* C22: every icon URL parseHtmlForFavicon returns is absolute.
C22_Absolute ==
    call.fn = "parseHtmlForFavicon" => call.ret[1] = "http"

\* C23: isValidImageData answers false for an empty buffer and for none,
\* whatever URL it is from; downloadAndCacheIcon writes no file for such a
\* download and returns the icon URL; fileToDataUrl returns no data URL for
\* an empty cache file.
C23_EmptyInvalid ==
    /\ (call.fn = "isValidImageData" /\ call.imageData \in {"empty", NoData})
          => call.ret = FALSE
    /\ (call.fn = "downloadAndCacheIcon" /\ call.iconData \in {"empty", NoData})
          => (call.ret = call.iconUrl /\ call.files = files)
    /\ (call.fn = "fileToDataUrl" /\ call.fileData = "empty")
          => call.ret = Null

\* an empty buffer from a URL that holds "favicon" was found invalid
C23_Witness ==
    /\ call.fn = "isValidImageData"
    /\ call.imageData = "empty"
    /\ Includes(call.originalUrl, "favicon")
    /\ call.ret = FALSE

\* C24: an item of an HTML source whose date cannot be obtained, because no
\* dateSelector is configured or because its text is missing or is no date,
\* has the time of the fetch as its publish date.
C24_FetchTimeWhenUndated ==
    call.fn = "scrapeHtmlNews" =>
        \A k \in 1..Len(call.ret) :
            LET e == call.entries[call.ret[k].title]
            IN  (~call.sourceConfig.dateSelector \/ IsNaNDate(e.date))
                    => call.ret[k].pubDate = DateAt(call.now)

\* C25: scrapeHtmlNews emits an element exactly when its trimmed title has 5
\* characters or more.
C25_TitleThreshold ==
    call.fn = "scrapeHtmlNews" =>
        \A i \in 1..Len(call.entries) :
            (\E k \in 1..Len(call.ret) : call.ret[k].title = i)
                <=> call.entries[i].len >= 5

\* The URL of a source holds ".xml", "/rss" or "/feed": that of u1 does,
\* that of u2 does not.
FeedLike(u) == u = "u1"

\* The response of a fetch was read as a scraped page, as a feed.
ReadAsHtml ==
    call.ret = scrapeHtmlNews(call.entries, call.sourceConfig, Null, call.now)
ReadAsRss ==
    call.ret = rssItems(call.entries, urlOf(call.sourceConfig), Null)

\* C26: a source with type "rss" or "html" is read as that; a source
\* without a type is read as RSS when its URL holds ".xml", "/rss" or
\* "/feed" and as HTML otherwise.
C26_SourceKind ==
    (call.fn = "fetch" /\ call.entries # <<>>) =>
        LET type == sourceTypeOf(call.sourceConfig)
            explicit == call.sourceConfig.shape = "object" /\ type \in {"rss", "html"}
            kind == IF explicit THEN type
                    ELSE IF FeedLike(urlOf(call.sourceConfig)) THEN "rss" ELSE "html"
        IN  IF kind = "html" THEN ReadAsHtml ELSE ReadAsRss

\* Of two items with parsable dates the earlier one is first.
OldestFirst(items) ==
    \A m1, m2 \in 1..Len(items) :
        (m1 < m2 /\ Dated(items[m1]) /\ Dated(items[m2])) =>
            items[m1].pubDate.t <= items[m2].pubDate.t

\* C28: the result is sorted from oldest to newest: of two items with
\* parsable dates the earlier one is first.
C28_OldestFirst ==
    \A c \in Cycles :
        cycles[c].pc = "done" => \A n \in Outcomes(c) : OldestFirst(sent[n].payload)

\* C30: no item with a parsable date in the result is older than
\* newsHoursBack hours at the time the filter ran, whatever time passed
\* between the request and the filter.
C30_CutoffAtFilterTime ==
    \A c \in Cycles :
        cycles[c].pc = "done" =>
            \A n \in Outcomes(c) : \A m \in 1..Len(sent[n].payload) :
                Dated(sent[n].payload[m]) =>
                    sent[n].payload[m].pubDate.t >= cycles[c].now - cycles[c].newsHoursBack

\* C27: while the module runs (started, not suspended or stopped, no
\* restart pending), the last GET_NEWS is never older than about one
\* updateInterval, taken generously as two.
C27_RefreshEveryInterval ==
    (front.mode = "running" /\ front.timeouts = 0) =>
        front.time - front.requestTime <= 2 * front.config.updateInterval

\* What the module shows: the loaded flag, the items and what getDom renders.
Shown(self) == [loaded |-> self.loaded, newsItems |-> self.newsItems, dom |-> getDom(self)]

\* C29: what the module shows after a NEWS_ERROR differs from what it would
\* show had the answer been a NEWS_RESULT with an empty list.
C29_ErrorDistinctFromEmpty ==
    [][Notified("NEWS_ERROR", "error") =>
         Shown(front') # Shown(frontNotificationReceived(front, "NEWS_RESULT", <<>>))]_vars

\* C34: no GET_NEWS is sent while an earlier one is unanswered: at most one
\* is outstanding.
C34_OneOutstanding == front.requests <= 1

\* C35: after STOP_NEWS and until the next GET_NEWS, no NEWS_RESULT and no
\* NEWS_ERROR is delivered to the module and its newsItems do not change.
C35_StopNewsHonoured ==
    [][front.stopNews =>
         /\ ~ \E payload \in ResultMenu : Notified("NEWS_RESULT", payload)
         /\ ~ Notified("NEWS_ERROR", "error")
         /\ front'.newsItems = front.newsItems]_vars

\* C36: once retryCount exceeds maxRetries the health check no longer runs
\* (healthCheckId is cleared), and retryCount never exceeds maxRetries + 1.
C36_MonitoringStops ==
    /\ front.updateState.retryCount > MaxRetries => ~front.updateState.healthCheckId
    /\ front.updateState.retryCount <= MaxRetries + 1

\* C37: a NEWS_ERROR leaves newsItems, lastUpdateTime and retryCount as they
\* were, clears isRequestInProgress and sets loaded; a module that had
\* loaded renders after it what it rendered before.
C37_ErrorFrame ==
    [][Notified("NEWS_ERROR", "error") =>
         /\ front'.newsItems = front.newsItems
         /\ front'.updateState.lastUpdateTime = front.updateState.lastUpdateTime
         /\ front'.updateState.retryCount = front.updateState.retryCount
         /\ ~front'.updateState.isRequestInProgress
         /\ front'.loaded
         /\ front.loaded => getDom(front') = getDom(front)]_vars

\* C37 witness: a NEWS_ERROR was the last answer, received after a success
\* and a failed health check; the items of the success are still there.
C37_Witness ==
    /\ front.received = "NEWS_ERROR"
    /\ front.requests = 0
    /\ front.newsItems # <<>>
    /\ front.updateState.lastUpdateTime > 0
    /\ front.updateState.retryCount > 0
    /\ ~front.updateState.isRequestInProgress
    /\ front.loaded

\* C33: a request that supplies no newsHoursBack (the bare array, the
\* object without the field) gets a window of 24 hours: of the items with a
\* parsable date the result holds exactly those of the last 24 hours.
C33_DefaultWindow ==
    \A c \in Cycles :
        cycles[c].pc = "done" =>
            \A n \in Outcomes(c), k \in 1..Len(AllNewsItems(c)) :
                LET it == AllNewsItems(c)[k]
                IN  Dated(it) =>
                        (Occurs(it, sent[n].payload) <=>
                            /\ cycles[c].now - DefaultHoursBack <= it.pubDate.t
                            /\ it.pubDate.t <= cycles[c].now)

\* C31: no favicon that getFaviconUrl returned for a source, and no favicon
\* of an emitted item, is a path of the cache directory.
C31_NeverCachePath ==
    /\ \A c \in Cycles, u \in Urls : cycles[c].faviconMap[u] \notin Paths
    /\ \A n \in 1..Len(sent) :
          sent[n].type = "NEWS_RESULT" =>
              \A m \in 1..Len(sent[n].payload) : sent[n].payload[m].favicon \notin Paths

\* C32: bytes that downloadAndCacheIcon accepted and persisted are accepted
\* by the read that follows: getFaviconUrl returns their data URL, the cache
\* file is still there, and the map and the index name an existing file.
C32_WriteReadConsistent ==
    (call.fn = "getFaviconUrl" /\ call.cachedPath \in Paths) =>
        /\ call.ret[1] = "data"
        /\ call.files[call.cachedPath] # NoFile
        /\ call.cache[call.rssUrl] # NoPath => call.files[call.cache[call.rssUrl]] # NoFile
        /\ call.entries[call.rssUrl] # NoPath => call.files[call.entries[call.rssUrl]] # NoFile

====
